---------------------------- MODULE Spec2Model ----------------------------
(***************************************************************************)
(* Model of the numerical core of cp_pipe:                                 *)
(*   makeBrighterFatterKernel.py  BrighterFatterKernelSolveTask            *)
(*       (run, averageCorrelations, _tileArray, successiveOverRelax)       *)
(*   ptc/cpExtractPtcTask.py      PhotonTransferCurveExtractTask           *)
(*       (run, measureMeanVarCov)                                          *)
(*                                                                         *)
(* Arrays are functions over 0-based index pairs, as in numpy.  Floating   *)
(* point numbers are fixed-point integers: the real x is the integer       *)
(* round(x * FRAC); every division rounds to the nearest representable     *)
(* value, as a floating point division does.                               *)
(***************************************************************************)
EXTENDS Integers, Sequences, FiniteSets, TLC

(***************************************************************************)
(* Fixed-point arithmetic                                                  *)
(***************************************************************************)
FRAC == 2^8

Abs(x) == IF x < 0 THEN -x ELSE x

\* a / b rounded to the nearest integer, halves away from zero (b # 0)
RoundDiv(a, b) ==
    LET n == IF b < 0 THEN -a ELSE a
        d == Abs(b)
    IN  IF n >= 0 THEN (2 * n + d) \div (2 * d)
                  ELSE -((2 * (-n) + d) \div (2 * d))

FixMul(a, b) == RoundDiv(a * b, FRAC)
FixDiv(a, b) == RoundDiv(a * FRAC, b)

\* np.cos(np.pi/n) in fixed point, n = 1..12
CosPiOver(n) ==
    <<-256, 0, 128, 181, 207, 222, 231, 237, 241, 243, 246, 247>>[n]

(***************************************************************************)
(* Arrays                                                                  *)
(***************************************************************************)
Idx(n) == (0 .. n - 1) \X (0 .. n - 1)
Zeros(n) == [p \in Idx(n) |-> 0]
Side(a) == Cardinality({p \in DOMAIN a : p[2] = 0})

RECURSIVE SumOver(_, _)
SumOver(a, ps) ==
    IF ps = {} THEN 0
    ELSE LET p == CHOOSE q \in ps : TRUE
         IN  a[p] + SumOver(a, ps \ {p})

\* the sum of the first k cells of a square array of side n, in row order
RECURSIVE SumCells(_, _, _)
SumCells(a, n, k) ==
    IF k = 0 THEN 0
    ELSE a[<<(k - 1) \div n, (k - 1) % n>>] + SumCells(a, n, k - 1)

RECURSIVE AbsSumCells(_, _, _)
AbsSumCells(a, n, k) ==
    IF k = 0 THEN 0
    ELSE Abs(a[<<(k - 1) \div n, (k - 1) % n>>]) + AbsSumCells(a, n, k - 1)

\* np.sum(a)
ArraySum(a) == SumCells(a, Side(a), Side(a) * Side(a))
\* np.sum(np.abs(a))
ArrayAbsSum(a) == AbsSumCells(a, Side(a), Side(a) * Side(a))

\* np.pad(a, ((1, 1))): one row/column of zeros on each of the four sides
Pad(a) ==
    LET n == Side(a)
    IN  [p \in Idx(n + 2) |->
            IF p[1] \in 1 .. n /\ p[2] \in 1 .. n
            THEN a[<<p[1] - 1, p[2] - 1>>] ELSE 0]

\* a[1:-1, 1:-1]
Interior(a) ==
    LET m == Side(a)
    IN  [p \in Idx(m - 2) |-> a[<<p[1] + 1, p[2] + 1>>]]

\* python range(a, b, s) as a sequence, s > 0
RangeStep(a, b, s) ==
    IF b <= a THEN << >>
    ELSE [k \in 1 .. ((b - a + s - 1) \div s) |-> a + (k - 1) * s]

\* the pairs (i, j) of "for i in is: for j in js" in loop order
LoopPairs(is, js) ==
    [k \in 1 .. Len(is) * Len(js) |->
        <<is[((k - 1) \div Len(js)) + 1], js[((k - 1) % Len(js)) + 1]>>]

(***************************************************************************)
(* State.  Each component is explored by a specification of its own, in    *)
(* which the variables of the other components stay idle.                  *)
(***************************************************************************)
VARIABLES
    \* successiveOverRelax: its locals (source, func, resid, nIter, omega, ...)
    sor,
    \* _tileArray and averageCorrelations applied to a list of quarter-matrices
    quarters, tiled, averaged, averagedAgain, avgCfg, purePc,
    \* measureMeanVarCov: its arguments, config and locals (w, fftShape, ...)
    mvc,
    \* BrighterFatterKernelSolveTask.run: config, loop positions, locals, bfk
    bfkCfg, ampIdx, gain, nSamples, scaledCorrList, acceptedQ00, scaled,
    detectorCorrList, detectorCorrAmps, ampKernels, meanXCorrs,
    detKernels, postKernel, ampAccepted, bfkPc, bfkExc,
    \* PhotonTransferCurveExtractTask.run: config, inputs, locals, output list
    ptcCfg, inputExp, inputDims, minMeanSignalDict, maxMeanSignalDict,
    expIdx, ampNumber, nAmpsNan, partialPtcDataset, partialPtcDatasetList,
    ptcPc, ptcExc

sorVars == <<sor>>
pureVars == <<quarters, tiled, averaged, averagedAgain, avgCfg, purePc>>
bfkVars == <<bfkCfg, ampIdx, gain, nSamples, scaledCorrList, acceptedQ00, scaled,
             detectorCorrList, detectorCorrAmps, ampKernels, meanXCorrs,
             detKernels, postKernel, ampAccepted, bfkPc, bfkExc>>
ptcVars == <<ptcCfg, inputExp, inputDims, minMeanSignalDict, maxMeanSignalDict,
             expIdx, ampNumber, nAmpsNan, partialPtcDataset, partialPtcDatasetList,
             ptcPc, ptcExc>>
mvcVars == <<mvc>>
vars == <<sorVars, pureVars, bfkVars, ptcVars, mvcVars>>

\* the variables a component leaves alone
notSor == <<pureVars, bfkVars, ptcVars, mvcVars>>
notPure == <<sorVars, bfkVars, ptcVars, mvcVars>>
notBfk == <<sorVars, pureVars, ptcVars, mvcVars>>
notPtc == <<sorVars, pureVars, bfkVars, mvcVars>>
notMvc == <<sorVars, pureVars, bfkVars, ptcVars>>

SORIdle == sor = [pc |-> "idle"]

MvcIdle == mvc = [pc |-> "idle"]

PureIdle ==
    /\ quarters = << >>
    /\ tiled = << >>
    /\ averaged = << >>
    /\ averagedAgain = << >>
    /\ avgCfg = [forceZeroSum |-> FALSE, nSigmaClip |-> 5]
    /\ purePc = "idle"

BfkIdle ==
    /\ bfkCfg = [level |-> "AMP"]
    /\ ampIdx = 1
    /\ gain = 1
    /\ nSamples = 0
    /\ scaledCorrList = << >>
    /\ acceptedQ00 = << >>
    /\ scaled = << >>
    /\ detectorCorrList = << >>
    /\ detectorCorrAmps = << >>
    /\ ampKernels = << >>
    /\ meanXCorrs = << >>
    /\ detKernels = << >>
    /\ postKernel = << >>
    /\ ampAccepted = << >>
    /\ bfkPc = "idle"
    /\ bfkExc = "none"

PtcIdle ==
    /\ ptcCfg = << >>
    /\ inputExp = << >>
    /\ inputDims = << >>
    /\ minMeanSignalDict = << >>
    /\ maxMeanSignalDict = << >>
    /\ expIdx = 1
    /\ ampNumber = 0
    /\ nAmpsNan = 0
    /\ partialPtcDataset = << >>
    /\ partialPtcDatasetList = << >>
    /\ ptcPc = "idle"
    /\ ptcExc = "none"

(***************************************************************************)
(* BrighterFatterKernelSolveTask.successiveOverRelax                       *)
(***************************************************************************)
\* bounds of the solver's inputs
MaxSide == 3
MaxIterBound == 3

\* config.maxIterSuccessiveOverRelaxation, config.eLevelSuccessiveOverRelaxation
\* (a float, here the ratio num/den)
ConfigMaxIter == 1
ConfigELevel == [num |-> 1, den |-> 2^16]

\* sources: square arrays with at most two nonzero cells
SrcVals == {-4 * FRAC, -FRAC, FRAC}
SORSources ==
    UNION {
        { [p \in Idx(n) |-> IF p = c1 THEN v1
                            ELSE IF p = c2 THEN v2 ELSE 0] :
            c1 \in Idx(n), c2 \in Idx(n),
            v1 \in SrcVals \cup {0}, v2 \in SrcVals \cup {0} } :
        n \in 1 .. MaxSide }
ELevels == {ConfigELevel, [num |-> 1, den |-> 2], [num |-> 9, den |-> 10]}

Laplace(func, i, j) ==
    func[<<i, j - 1>>] + func[<<i, j + 1>>] + func[<<i - 1, j>>]
        + func[<<i + 1, j>>] - 4 * func[<<i, j>>]

\* the residual of every interior point of the initial grid
InitialResid(func, source) ==
    LET m == Side(func)
    IN  [p \in DOMAIN func |->
            IF p[1] \in 1 .. m - 2 /\ p[2] \in 1 .. m - 2
            THEN Laplace(func, p[1], p[2]) - source[<<p[1] - 1, p[2] - 1>>]
            ELSE 0]

\* resid[i, j] = ...; func[i, j] += omega*resid[i, j]*.25
RelaxPoint(fr, p, source, omega) ==
    LET r == Laplace(fr.func, p[1], p[2]) - source[<<p[1] - 1, p[2] - 1>>]
    IN  [func  |-> [fr.func EXCEPT ![p] = @ + RoundDiv(omega * r, 4 * FRAC)],
         resid |-> [fr.resid EXCEPT ![p] = r]]

RECURSIVE Sweep(_, _, _, _, _)
Sweep(fr, pts, k, source, omega) ==
    IF k > Len(pts) THEN fr
    ELSE Sweep(RelaxPoint(fr, pts[k], source, omega), pts, k + 1, source, omega)

\* both kinds of pass visiting the points of the even pass
HalfStepPointsOneColour(nIter, m) ==
    LoopPairs(RangeStep(1, m - 1, 2), RangeStep(1, m - 1, 2))
        \o LoopPairs(RangeStep(2, m - 1, 2), RangeStep(2, m - 1, 2))

\* the points one pass of the while loop visits, in loop order (m = func.shape[0])
HalfStepPoints(nIter, m) ==
    IF nIter % 2 = 0
    THEN LoopPairs(RangeStep(1, m - 1, 2), RangeStep(1, m - 1, 2))
             \o LoopPairs(RangeStep(2, m - 1, 2), RangeStep(2, m - 1, 2))
    ELSE LoopPairs(RangeStep(1, m - 1, 2), RangeStep(2, m - 1, 2))
             \o LoopPairs(RangeStep(2, m - 1, 2), RangeStep(1, m - 1, 2))

\* the test with <= for <
ConvergenceTestInclusive(outError, inError, eLevel) ==
    outError * eLevel.den <= inError * eLevel.num

\* outError < inError*eLevel
ConvergenceTest(outError, inError, eLevel) ==
    outError * eLevel.den < inError * eLevel.num

\* the update of omega at the end of a pass
NextOmega(nIter, omega, rhoSpe) ==
    LET rho2 == FixMul(rhoSpe, rhoSpe)
    IN  IF nIter = 0
        THEN FixDiv(FRAC, FRAC - RoundDiv(rho2, 2))
        ELSE FixDiv(FRAC, FRAC - RoundDiv(FixMul(rho2, omega), 4))

\* the locals of successiveOverRelax on entry to the while loop
SORBegin(source, maxIterArg, eLevelArg) ==
    LET n     == Side(source)
        func0 == Zeros(n + 2)
        res0  == InitialResid(func0, source)
    IN  [source    |-> source,
         maxIter   |-> IF maxIterArg = 0 THEN ConfigMaxIter ELSE maxIterArg,
         eLevel    |-> IF eLevelArg.num = 0 THEN ConfigELevel ELSE eLevelArg,
         func      |-> func0,
         resid     |-> res0,
         rhoSpe    |-> CosPiOver(n),
         inError   |-> ArrayAbsSum(res0),
         outError  |-> 0,
         nIter     |-> 0,
         omega     |-> FRAC,
         pc        |-> "loop",
         halfSteps |-> 0,
         broke     |-> FALSE,
         log       |-> "none",
         logIters  |-> 0,
         output    |-> << >>]

\* a pass that evaluates the test only after the second half-step of a pair
SORPassTestPerPair(s) ==
    LET fr  == Sweep([func |-> s.func, resid |-> s.resid],
                     HalfStepPoints(s.nIter, Side(s.func)), 1, s.source, s.omega)
        out == ArrayAbsSum(fr.resid)
    IN  IF s.nIter % 2 = 1 /\ ConvergenceTest(out, s.inError, s.eLevel)
        THEN [s EXCEPT !.func = fr.func, !.resid = fr.resid, !.outError = out,
                       !.halfSteps = @ + 1,
                       !.broke = TRUE, !.pc = "report"]
        ELSE [s EXCEPT !.func = fr.func, !.resid = fr.resid, !.outError = out,
                       !.halfSteps = @ + 1,
                       !.omega = NextOmega(s.nIter, s.omega, s.rhoSpe),
                       !.nIter = @ + 1]

\* one pass of the while loop: a half-step, the test, the update of omega
SORPass(s) ==
    LET fr  == Sweep([func |-> s.func, resid |-> s.resid],
                     HalfStepPoints(s.nIter, Side(s.func)), 1, s.source, s.omega)
        out == ArrayAbsSum(fr.resid)
    IN  IF ConvergenceTest(out, s.inError, s.eLevel)
        THEN [s EXCEPT !.func = fr.func, !.resid = fr.resid, !.outError = out,
                       !.halfSteps = @ + 1,
                       !.broke = TRUE, !.pc = "report"]
        ELSE [s EXCEPT !.func = fr.func, !.resid = fr.resid, !.outError = out,
                       !.halfSteps = @ + 1,
                       !.omega = NextOmega(s.nIter, s.omega, s.rhoSpe),
                       !.nIter = @ + 1]

\* the loop condition with <= for <
LoopConditionInclusive(s) == s.nIter <= s.maxIter * 2

\* while nIter < maxIter*2
LoopCondition(s) == s.nIter < s.maxIter * 2

\* the while condition fails
SORExhaust(s) == [s EXCEPT !.pc = "report"]

\* the return of the whole working grid
SORReportWholeGrid(s) ==
    [s EXCEPT !.log = IF s.nIter >= s.maxIter * 2 THEN "failure" ELSE "success",
              !.logIters = s.nIter \div 2,
              !.output = s.func,
              !.pc = "done"]

\* the log message and the return
SORReport(s) ==
    [s EXCEPT !.log = IF s.nIter >= s.maxIter * 2 THEN "failure" ELSE "success",
              !.logIters = s.nIter \div 2,
              !.output = Interior(s.func),
              !.pc = "done"]

RECURSIVE SORRunFrom(_)
SORRunFrom(s) ==
    IF s.pc = "done" THEN s
    ELSE IF s.pc = "report" THEN SORRunFrom(SORReport(s))
    ELSE IF LoopCondition(s) THEN SORRunFrom(SORPass(s))
    ELSE SORRunFrom(SORExhaust(s))

\* successiveOverRelax(source, maxIter, eLevel) as a function of its arguments
SuccessiveOverRelax(source, maxIterArg, eLevelArg) ==
    SORRunFrom(SORBegin(source, maxIterArg, eLevelArg)).output


(***************************************************************************)
(* BrighterFatterKernelSolveTask._tileArray                                *)
(***************************************************************************)
\* the loop body without its last write, the one at (-i, -j)
TileWriteThreeQuadrants(output, in_array, p, length) ==
    LET v  == in_array[p]
        o1 == [output EXCEPT ![<<p[1] + length, p[2] + length>>] = v]
        o2 == [o1 EXCEPT ![<<-p[1] + length, p[2] + length>>] = v]
    IN  [o2 EXCEPT ![<<p[1] + length, -p[2] + length>>] = v]

\* the four writes of the loop body for in_array[i, j], p = (i, j)
TileWrite(output, in_array, p, length) ==
    LET v  == in_array[p]
        o1 == [output EXCEPT ![<<p[1] + length, p[2] + length>>] = v]
        o2 == [o1 EXCEPT ![<<-p[1] + length, p[2] + length>>] = v]
        o3 == [o2 EXCEPT ![<<p[1] + length, -p[2] + length>>] = v]
    IN  [o3 EXCEPT ![<<-p[1] + length, -p[2] + length>>] = v]

RECURSIVE TileLoop(_, _, _, _, _)
TileLoop(output, in_array, pts, k, length) ==
    IF k > Len(pts) THEN output
    ELSE TileLoop(TileWrite(output, in_array, pts[k], length),
                  in_array, pts, k + 1, length)

TileArray(in_array) ==
    LET length == Side(in_array) - 1
        rng    == RangeStep(0, length + 1, 1)
    IN  TileLoop(Zeros(2 * length + 1), in_array, LoopPairs(rng, rng), 1, length)

(***************************************************************************)
(* afwMath.makeStatistics(values, MEANCLIP, sctrl): the sigma-clipped mean *)
(* of a vector: NIterClip times, drop the values farther than nSigma       *)
(* standard deviations from the mean of the values kept, then the mean of  *)
(* what is kept.                                                           *)
(***************************************************************************)
SeqSum(v, keep) == SumOver([k \in DOMAIN v |-> v[k]], keep)

\* the indices of keep within nSigma standard deviations of keep's mean:
\* (x - S/n)^2 <= nSigma^2 * sum_i (x_i - S/n)^2 / (n - 1)
ClipOnce(v, keep, nSigma) ==
    LET n  == Cardinality(keep)
        S  == SeqSum(v, keep)
        dd == SumOver([k \in DOMAIN v |-> (n * v[k] - S) * (n * v[k] - S)], keep)
    IN  IF n <= 1 THEN keep
        ELSE {k \in keep :
                (n * v[k] - S) * (n * v[k] - S) * (n - 1) <= nSigma * nSigma * dd}

RECURSIVE ClipIter(_, _, _, _)
ClipIter(v, keep, nSigma, iters) ==
    IF iters = 0 THEN keep
    ELSE ClipIter(v, ClipOnce(v, keep, nSigma), nSigma, iters - 1)

MeanClip(v, nSigma, nIterClip) ==
    LET keep == ClipIter(v, DOMAIN v, nSigma, nIterClip)
    IN  RoundDiv(SeqSum(v, keep), Cardinality(keep))

(***************************************************************************)
(* BrighterFatterKernelSolveTask.averageCorrelations                       *)
(***************************************************************************)
\* StatisticsControl's default number of clipping iterations
NIterClip == 3

\* the branch taken only when the flag is set
ZeroSumBranchAsConfigured(forceZeroSum) == forceZeroSum

\* if self.config.forceZeroSum or True:
ZeroSumBranch(forceZeroSum) == forceZeroSum \/ TRUE

\* np.transpose(xCorrList)[i, j]: the values of cell (j, i) across the list
CellValues(xCorrList, i, j) ==
    [k \in 1 .. Len(xCorrList) |-> xCorrList[k][<<j, i>>]]

\* [ok, value], or ok = FALSE and the IndexError of xCorrList[0] on an empty list
AverageCorrelations(xCorrList, nSigmaClip, forceZeroSum) ==
    IF Len(xCorrList) = 0 THEN [ok |-> FALSE, exc |-> "IndexError"]
    ELSE
        LET mean   == [p \in DOMAIN xCorrList[1] |->
                          MeanClip(CellValues(xCorrList, p[1], p[2]),
                                   nSigmaClip, NIterClip)]
            padded == Pad(mean)
            center == (Side(padded) - 1) \div 2
        IN  [ok    |-> TRUE,
             value |-> IF ZeroSumBranch(forceZeroSum)
                       THEN [padded EXCEPT ![<<center, center>>] =
                                                @ - ArraySum(padded)]
                       ELSE padded]

\* the means written into the first array of the list
MeanXcorrStorageFirst(xCorrList) == 1

\* meanXcorr = np.zeros_like(xCorrList[0]): the array the loop writes the
\* means to; 0 is an array of its own, k > 0 the k-th array of the caller's list
MeanXcorrStorage(xCorrList) == 0

\* the arrays of the caller's list after the call.  np.transpose(xCorrList)
\* copies the list into a new array before the loop, the loop writes
\* meanXcorr[i, j], np.pad returns a new array, which gets the centre write
XCorrListAfterAverage(xCorrList, nSigmaClip) ==
    IF Len(xCorrList) = 0 THEN xCorrList
    ELSE
        LET storage == MeanXcorrStorage(xCorrList)
            mean    == [p \in DOMAIN xCorrList[1] |->
                           MeanClip(CellValues(xCorrList, p[1], p[2]),
                                    nSigmaClip, NIterClip)]
        IN  IF storage = 0 THEN xCorrList
            ELSE [xCorrList EXCEPT ![storage] = mean]

(***************************************************************************)
(* The two pure functions applied to bounded inputs                        *)
(***************************************************************************)
MaxQuarter == 3
MaxList == 2

\* quarter-matrices of side n; c + n*i + j has n*n distinct entries
Quarters(n) ==
    { [p \in Idx(n) |-> c + a * p[1] + b * p[2]] :
        a \in {0, 1, n}, b \in {0, 1}, c \in {-1, 1} }
QuarterLists(n) ==
    UNION { [1 .. k -> Quarters(n)] : k \in 1 .. MaxList }

PureInit ==
    /\ \E n \in 1 .. MaxQuarter : quarters \in QuarterLists(n)
    /\ avgCfg \in [forceZeroSum : BOOLEAN, nSigmaClip : {1, 5}]
    /\ tiled = << >>
    /\ averaged = << >>
    /\ averagedAgain = << >>
    /\ purePc = "tile"
    /\ SORIdle /\ BfkIdle /\ PtcIdle /\ MvcIdle

\* _tileArray on the next quarter-matrix of the list
TileCall ==
    /\ purePc = "tile"
    /\ Len(tiled) < Len(quarters)
    /\ tiled' = Append(tiled, TileArray(quarters[Len(tiled) + 1]))
    /\ purePc' = IF Len(tiled') = Len(quarters) THEN "average" ELSE "tile"
    /\ UNCHANGED <<notPure, quarters, averaged, averagedAgain, avgCfg>>

\* averageCorrelations on the list of tiled samples: its return value and
\* what it leaves in the arrays of the caller's list
AverageCall ==
    /\ purePc = "average"
    /\ averaged' = AverageCorrelations(tiled, avgCfg.nSigmaClip, avgCfg.forceZeroSum)
    /\ tiled' = XCorrListAfterAverage(tiled, avgCfg.nSigmaClip)
    /\ purePc' = "done"
    /\ UNCHANGED <<notPure, quarters, averagedAgain, avgCfg>>

\* a second call of averageCorrelations on the same list
AverageAgainCall ==
    /\ purePc = "done"
    /\ averagedAgain' = AverageCorrelations(tiled, avgCfg.nSigmaClip, avgCfg.forceZeroSum)
    /\ tiled' = XCorrListAfterAverage(tiled, avgCfg.nSigmaClip)
    /\ purePc' = "again"
    /\ UNCHANGED <<notPure, quarters, averaged, avgCfg>>

PureNext == TileCall \/ AverageCall \/ AverageAgainCall


(***************************************************************************)
(* BrighterFatterKernelSolveTask.run                                       *)
(***************************************************************************)
\* the amplifiers of the detector, in the order "for amp in detector"
Amps == <<"C00", "C01">>
MaxSamples == 2

\* side of a covariance quarter-matrix (PTC config maximumRangeCovariancesAstier)
maximumRangeCovariancesAstier == 2

\* side of a tiled sample after np.pad
PaddedSide == 2 * maximumRangeCovariancesAstier - 1 + 2

\* the configurations of the task explored (xcorrCheckRejectLevel is num/den;
\* its default is 2.0, nSigmaClip's is 5, forceZeroSum's and useAmatrix's False)
BfkConfig(level, ignore, rejectLevel, useAmatrix) ==
    [level |-> level,
     ignoreAmpsForAveraging |-> ignore,
     xcorrCheckRejectLevel |-> rejectLevel,
     nSigmaClip |-> 5,
     forceZeroSum |-> FALSE,
     useAmatrix |-> useAmatrix]
BfkConfigs ==
    {BfkConfig("AMP", {}, [num |-> 2, den |-> 1], FALSE),
     BfkConfig("AMP", {}, [num |-> 3, den |-> 4], FALSE),
     BfkConfig("AMP", {}, [num |-> 2, den |-> 1], TRUE),
     BfkConfig("DETECTOR", {}, [num |-> 2, den |-> 1], FALSE),
     BfkConfig("DETECTOR", {"C00"}, [num |-> 2, den |-> 1], FALSE),
     BfkConfig("DETECTOR", {"C00"}, [num |-> 3, den |-> 4], FALSE)}

\* the inputs of one sample: raw covariances (ADU^2), mean flux (ADU)
Xcorrs ==
    { [p \in Idx(maximumRangeCovariancesAstier) |->
          IF p = <<0, 0>> THEN c
          ELSE IF p = <<maximumRangeCovariancesAstier - 1,
                        maximumRangeCovariancesAstier - 1>> THEN o
          ELSE 0] : c \in {1, 2, 3}, o \in {0, 1} }
Fluxes == {2}
\* inputPtc.gain[ampName] (e-/ADU)
PtcGain == [a \in {"C00", "C01"} |-> IF a = "C00" THEN 1 ELSE 2]
\* inputPtc.aMatrix[ampName]
AMatrix == [p \in Idx(maximumRangeCovariancesAstier) |-> IF p = <<0, 0>> THEN -FRAC ELSE 0]

\* q after the doubling and the subtraction of 2*flux at (0, 0)
SelfTermQ(xcorr, flux, ampGain) ==
    LET q == [p \in DOMAIN xcorr |-> xcorr[p] * ampGain * ampGain * 2]
    IN  [q EXCEPT ![<<0, 0>>] = @ - 2 * (flux * ampGain)]

\* the comparison with its sign reversed
SelfTermRejectReversed(q00) == q00 < 0

\* if q[0][0] > 0.0: ... continue
SelfTermReject(q00) == q00 > 0

\* q /= -2.0*(flux**2); scaled = self._tileArray(q)
ScaledSample(xcorr, flux, ampGain) ==
    LET q == SelfTermQ(xcorr, flux, ampGain)
        f == flux * ampGain
    IN  TileArray([p \in DOMAIN q |-> RoundDiv(q[p] * FRAC, -2 * f * f)])

\* the comparison with the inverse of the level
TriangleRejectInverseLevel(tile, level) ==
    /\ ArrayAbsSum(tile) # 0
    /\ Abs(ArraySum(tile)) * level.num > level.den * ArrayAbsSum(tile)

\* xcorrCheck = |sum| / sum|.|; xcorrCheck > level (0/0 is NaN: not greater)
TriangleReject(tile, level) ==
    /\ ArrayAbsSum(tile) # 0
    /\ Abs(ArraySum(tile)) * level.den > level.num * ArrayAbsSum(tile)

AmpNames == {Amps[k] : k \in 1 .. Len(Amps)}

\* a local or a dictionary entry not yet assigned is << >>, an assigned one <<value>>
BfkInit ==
    /\ bfkCfg \in BfkConfigs
    /\ ampIdx = 1
    /\ gain = 1
    /\ nSamples = 0
    /\ scaledCorrList = << >>
    /\ acceptedQ00 = << >>
    /\ scaled = << >>
    /\ detectorCorrList = << >>
    /\ detectorCorrAmps = << >>
    /\ ampKernels = [a \in AmpNames |-> << >>]
    /\ meanXCorrs = [a \in AmpNames |-> << >>]
    /\ detKernels = << >>
    /\ postKernel = << >>
    /\ ampAccepted = [a \in AmpNames |-> -1]
    /\ bfkPc = "amps"
    /\ bfkExc = "none"
    /\ SORIdle /\ PureIdle /\ PtcIdle /\ MvcIdle

\* for amp in detector: the mask, the gain, an empty scaledCorrList
\* (nSamples counts the measurements of the amplifier the loop has consumed;
\* it is 0 again once the loop over them is left)
BfkStartAmp ==
    /\ bfkPc = "amps"
    /\ ampIdx <= Len(Amps)
    /\ gain' = PtcGain[Amps[ampIdx]]
    /\ nSamples' = 0
    /\ scaledCorrList' = << >>
    /\ acceptedQ00' = << >>
    /\ bfkPc' = "samples"
    /\ UNCHANGED <<notBfk, bfkCfg, ampIdx, scaled, detectorCorrList, detectorCorrAmps,
                   ampKernels, meanXCorrs, detKernels, postKernel, ampAccepted,
                   bfkExc>>

\* a measurement with expIdMask False never enters the loop
BfkSampleMasked ==
    /\ bfkPc = "samples"
    /\ nSamples < MaxSamples
    /\ nSamples' = nSamples + 1
    /\ UNCHANGED <<notBfk, bfkCfg, ampIdx, gain, scaledCorrList, acceptedQ00, scaled,
                   detectorCorrList, detectorCorrAmps, ampKernels, meanXCorrs,
                   detKernels, postKernel, ampAccepted, bfkPc, bfkExc>>

\* the self-term test rejects the sample: continue
BfkSampleSelfReject ==
    /\ bfkPc = "samples"
    /\ nSamples < MaxSamples
    /\ \E xcorr \in Xcorrs, flux \in Fluxes :
          SelfTermReject(SelfTermQ(xcorr, flux, gain)[<<0, 0>>])
    /\ nSamples' = nSamples + 1
    /\ UNCHANGED <<notBfk, bfkCfg, ampIdx, gain, scaledCorrList, acceptedQ00, scaled,
                   detectorCorrList, detectorCorrAmps, ampKernels, meanXCorrs,
                   detKernels, postKernel, ampAccepted, bfkPc, bfkExc>>

\* the sample is tiled, and the triangle-inequality test rejects it: continue
BfkSampleTriangleReject ==
    /\ bfkPc = "samples"
    /\ nSamples < MaxSamples
    /\ \E xcorr \in Xcorrs, flux \in Fluxes :
          LET t == ScaledSample(xcorr, flux, gain)
          IN  /\ ~SelfTermReject(SelfTermQ(xcorr, flux, gain)[<<0, 0>>])
              /\ TriangleReject(t, bfkCfg.xcorrCheckRejectLevel)
              /\ scaled' = <<t>>
    /\ nSamples' = nSamples + 1
    /\ UNCHANGED <<notBfk, bfkCfg, ampIdx, gain, scaledCorrList, acceptedQ00,
                   detectorCorrList, detectorCorrAmps, ampKernels, meanXCorrs,
                   detKernels, postKernel, ampAccepted, bfkPc, bfkExc>>

\* the sample passes both tests: scaledCorrList.append(scaled)
BfkSampleAccept ==
    /\ bfkPc = "samples"
    /\ nSamples < MaxSamples
    /\ \E xcorr \in Xcorrs, flux \in Fluxes :
          LET t == ScaledSample(xcorr, flux, gain)
          IN  /\ ~SelfTermReject(SelfTermQ(xcorr, flux, gain)[<<0, 0>>])
              /\ ~TriangleReject(t, bfkCfg.xcorrCheckRejectLevel)
              /\ scaled' = <<t>>
              /\ scaledCorrList' = Append(scaledCorrList, t)
              /\ acceptedQ00' =
                    Append(acceptedQ00, SelfTermQ(xcorr, flux, gain)[<<0, 0>>])
    /\ nSamples' = nSamples + 1
    /\ UNCHANGED <<notBfk, bfkCfg, ampIdx, gain, detectorCorrList, detectorCorrAmps,
                   ampKernels, meanXCorrs, detKernels, postKernel, ampAccepted,
                   bfkPc, bfkExc>>

\* len(scaledCorrList) == 0 with scaled bound: the zero kernel, continue
BfkAmpAllRejected ==
    /\ bfkPc = "samples"
    /\ Len(scaledCorrList) = 0
    /\ scaled # << >>
    /\ ampKernels' = [ampKernels EXCEPT ![Amps[ampIdx]] =
                          <<[p \in DOMAIN Pad(scaled[1]) |-> 0]>>]
    /\ ampAccepted' = [ampAccepted EXCEPT ![Amps[ampIdx]] = 0]
    /\ ampIdx' = ampIdx + 1
    /\ nSamples' = 0
    /\ bfkPc' = "amps"
    /\ UNCHANGED <<notBfk, bfkCfg, gain, scaledCorrList, acceptedQ00, scaled,
                   detectorCorrList, detectorCorrAmps, meanXCorrs, detKernels,
                   postKernel, bfkExc>>

\* len(scaledCorrList) == 0 and no sample of the run was tiled yet: the
\* local scaled is unbound in np.pad(scaled, ...)
BfkAmpAllRejectedRaise ==
    /\ bfkPc = "samples"
    /\ Len(scaledCorrList) = 0
    /\ scaled = << >>
    /\ ampAccepted' = [ampAccepted EXCEPT ![Amps[ampIdx]] = 0]
    /\ bfkPc' = "raised"
    /\ bfkExc' = "UnboundLocalError"
    /\ UNCHANGED <<notBfk, bfkCfg, ampIdx, gain, nSamples, scaledCorrList, acceptedQ00,
                   scaled, detectorCorrList, detectorCorrAmps, ampKernels,
                   meanXCorrs, detKernels, postKernel>>

\* the amplifier's kernel from its accepted samples
AmpPreKernel(cfg, list) ==
    IF cfg.useAmatrix THEN Pad(TileArray(AMatrix))
    ELSE AverageCorrelations(list, cfg.nSigmaClip, cfg.forceZeroSum).value

BfkAmpKernel ==
    /\ bfkPc = "samples"
    /\ Len(scaledCorrList) > 0
    /\ IF bfkCfg.level = "DETECTOR"
       THEN /\ detectorCorrList' = detectorCorrList \o scaledCorrList
            /\ detectorCorrAmps' = detectorCorrAmps
                    \o [k \in 1 .. Len(scaledCorrList) |-> Amps[ampIdx]]
       ELSE UNCHANGED <<detectorCorrList, detectorCorrAmps>>
    /\ LET preKernel == AmpPreKernel(bfkCfg, scaledCorrList)
           post      == SuccessiveOverRelax(preKernel, 0, [num |-> 0, den |-> 1])
       IN  /\ meanXCorrs' = [meanXCorrs EXCEPT ![Amps[ampIdx]] = <<preKernel>>]
           /\ ampKernels' = [ampKernels EXCEPT ![Amps[ampIdx]] = <<post>>]
           /\ postKernel' = <<post>>
    /\ ampAccepted' = [ampAccepted EXCEPT ![Amps[ampIdx]] = Len(scaledCorrList)]
    /\ ampIdx' = ampIdx + 1
    /\ nSamples' = 0
    /\ bfkPc' = "amps"
    /\ UNCHANGED <<notBfk, bfkCfg, gain, scaledCorrList, acceptedQ00, scaled,
                   detKernels, bfkExc>>

\* after the loop: the detector kernel (level DETECTOR), bfk.shape, the return;
\* [exc, detKernels, postKernel]
BfkTail(cfg, detList, post) ==
    LET avg == AverageCorrelations(detList, cfg.nSigmaClip, cfg.forceZeroSum)
    IN  IF cfg.level = "DETECTOR"
        THEN IF ~avg.ok
             THEN [exc |-> avg.exc, detKernels |-> << >>, postKernel |-> post]
             ELSE LET k == SuccessiveOverRelax(avg.value, 0, [num |-> 0, den |-> 1])
                  IN  [exc |-> "none", detKernels |-> <<k>>, postKernel |-> <<k>>]
        ELSE IF post = << >>
             THEN [exc |-> "UnboundLocalError", detKernels |-> << >>,
                   postKernel |-> post]
             ELSE [exc |-> "none", detKernels |-> << >>, postKernel |-> post]

BfkReturn ==
    /\ bfkPc = "amps"
    /\ ampIdx > Len(Amps)
    /\ LET tail == BfkTail(bfkCfg, detectorCorrList, postKernel)
       IN  /\ tail.exc = "none"
           /\ detKernels' = tail.detKernels
           /\ postKernel' = tail.postKernel
    /\ bfkPc' = "done"
    /\ UNCHANGED <<notBfk, bfkCfg, ampIdx, gain, nSamples, scaledCorrList, acceptedQ00,
                   scaled, detectorCorrList, detectorCorrAmps, ampKernels,
                   meanXCorrs, ampAccepted, bfkExc>>

BfkReturnRaise ==
    /\ bfkPc = "amps"
    /\ ampIdx > Len(Amps)
    /\ LET tail == BfkTail(bfkCfg, detectorCorrList, postKernel)
       IN  /\ tail.exc # "none"
           /\ bfkExc' = tail.exc
    /\ bfkPc' = "raised"
    /\ UNCHANGED <<notBfk, bfkCfg, ampIdx, gain, nSamples, scaledCorrList, acceptedQ00,
                   scaled, detectorCorrList, detectorCorrAmps, ampKernels,
                   meanXCorrs, detKernels, postKernel, ampAccepted>>

BfkNext ==
    \/ BfkStartAmp
    \/ BfkSampleMasked
    \/ BfkSampleSelfReject
    \/ BfkSampleTriangleReject
    \/ BfkSampleAccept
    \/ BfkAmpAllRejected
    \/ BfkAmpAllRejectedRaise
    \/ BfkAmpKernel
    \/ BfkReturn
    \/ BfkReturnRaise

(***************************************************************************)
(* PhotonTransferCurveExtractTask.run                                      *)
(***************************************************************************)
\* a float is [nan, v], v in units of 1/FRAC; comparisons with NaN are false
NaN == [nan |-> TRUE, v |-> 0]
Fl(x) == [nan |-> FALSE, v |-> x]
IsNan(x) == x.nan
FloatLE(a, b) == ~a.nan /\ ~b.nan /\ a.v <= b.v
FloatGE(a, b) == ~a.nan /\ ~b.nan /\ a.v >= b.v
\* x * num / den
FloatScale(x, num, den) == IF x.nan THEN NaN ELSE Fl(RoundDiv(x.v * num, den))

\* sigmaClipCorrection(nSigmaClipPtc)**2, the ratio num/den
VarFactor == [num |-> 5, den |-> 4]

\* np.full((1, M, M), np.nan): the one block, indexed by the lags (i, j)
NaNArray == [p \in Idx(maximumRangeCovariancesAstier) |-> NaN]

\* the configurations explored: the two dictionaries of the flux window and
\* minNumberGoodPixelsForCovariance (a dictionary is a function on its keys)
Dict1(k, x) == [d \in {k} |-> x]
Dict2(k1, x1, k2, x2) == [d \in {k1, k2} |-> IF d = k1 THEN x1 ELSE x2]
PtcConfigs ==
    {[minMeanSignal |-> Dict1("ALL_AMPS", Fl(FRAC)),
      maxMeanSignal |-> Dict1("ALL_AMPS", Fl(3 * FRAC)),
      minNumberGoodPixelsForCovariance |-> 1],
     [minMeanSignal |-> Dict1("C00", Fl(2 * FRAC)),
      maxMeanSignal |-> Dict1("C01", Fl(2 * FRAC)),
      minNumberGoodPixelsForCovariance |-> 1],
     [minMeanSignal |-> Dict2("ALL_AMPS", Fl(0), "C00", Fl(2 * FRAC)),
      maxMeanSignal |-> << >>,
      minNumberGoodPixelsForCovariance |-> 2]}

\* inputExp: the exposure ids of each exposure-time bucket, in order;
\* inputDims: the exposure ids of the input references
PtcInputs ==
    {[inputExp |-> << <<11, 12>>, <<21>> >>,          inputDims |-> <<11, 12, 21>>],
     [inputExp |-> << <<11, 12, 13>>, <<21, 22>> >>,  inputDims |-> <<21, 22, 11, 12, 13>>],
     [inputExp |-> << <<31>>, <<7000, 8000>> >>,      inputDims |-> <<31, 8, 7>>],
     [inputExp |-> << <<11, 12>>, <<7003, 8003>> >>,  inputDims |-> <<11, 12, 7, 8>>],
     [inputExp |-> << <<730, 731>>, <<11, 12>> >>,    inputDims |-> <<12, 11, 7, 7>>],
     [inputExp |-> << <<73, 74>> >>,                  inputDims |-> <<9, 7>>],
     [inputExp |-> << <<11, 12, 13>>, <<21>> >>,      inputDims |-> <<11, 12, 13, 21>>]}

\* covDiffAstier: for every lag (i, j) the tuple (var, cov, npix)
CovRowsOf(maxRangeCov) ==
    [p \in Idx(maxRangeCov) |->
        [var  |-> 8 * FRAC,
         cov  |-> IF p = <<0, 0>> THEN 8 * FRAC ELSE FRAC * (p[1] + 2 * p[2]),
         npix |-> 100 - p[1] - p[2]]]
CovRows == CovRowsOf(maximumRangeCovariancesAstier)

\* what measureMeanVarCov computes from the two images of a region: the
\* clipped means, the clipped variance of the difference, the number of
\* weight-1 pixels and the covariances.  No pixel lies within a NaN cut, so a
\* NaN variance comes with no weight-1 pixel.
PairStats ==
    { st \in [mu1 : {NaN, Fl(FRAC)},
              mu2 : {NaN, Fl(FRAC), Fl(3 * FRAC), Fl(5 * FRAC)},
              varClip : {NaN, Fl(4 * FRAC)},
              nGood : {0, 1, 2},
              cov : {CovRows}] :
        IsNan(st.varClip) => st.nGood = 0 }

\* the test of the number of weight-1 pixels with <= for <
MeasureMeanVarCovInclusive(st, minNumberGoodPixels) ==
    IF IsNan(st.mu1) \/ IsNan(st.mu2)
    THEN [mu |-> NaN, varDiff |-> NaN, cov |-> << >>]
    ELSE IF st.nGood <= minNumberGoodPixels
    THEN [mu |-> NaN, varDiff |-> NaN, cov |-> << >>]
    ELSE [mu      |-> Fl(RoundDiv(st.mu1.v + st.mu2.v, 2)),
          varDiff |-> FloatScale(st.varClip, 1, 2),
          cov     |-> <<st.cov>>]

\* measureMeanVarCov: (mu, varDiff, covDiffAstier); covDiffAstier None is << >>
MeasureMeanVarCov(st, minNumberGoodPixels) ==
    IF IsNan(st.mu1) \/ IsNan(st.mu2)
    THEN [mu |-> NaN, varDiff |-> NaN, cov |-> << >>]
    ELSE IF st.nGood < minNumberGoodPixels
    THEN [mu |-> NaN, varDiff |-> NaN, cov |-> << >>]
    ELSE [mu      |-> Fl(RoundDiv(st.mu1.v + st.mu2.v, 2)),
          varDiff |-> FloatScale(st.varClip, 1, 2),
          cov     |-> <<st.cov>>]

\* makeCovArray: the covariances by lag, and the weights derived from the
\* variances of the covariances (kept as the pixel-pair counts they come from)
MakeCovArray(rows) ==
    [covArray       |-> [p \in DOMAIN rows |-> Fl(rows[p].cov)],
     covSqrtWeights |-> [p \in DOMAIN rows |-> Fl(rows[p].npix)]]

\* covArray *= varFactor**2; covArray[0, 0] /= varFactor.  covArray has the
\* shape (1, M, M): covArray[0, 0] is the row of the lags (0, j)
ScaleCovArray(covArray, varFactor) ==
    [p \in DOMAIN covArray |->
        LET twice == FloatScale(covArray[p], varFactor.num * varFactor.num,
                                varFactor.den * varFactor.den)
        IN  IF p[1] = 0 THEN FloatScale(twice, varFactor.den, varFactor.num)
            ELSE twice]

\* if np.isnan(muDiff) or np.isnan(varDiff) or (covAstier is None)
NanBranch(muDiff, varDiff, covAstier) ==
    IsNan(muDiff) \/ IsNan(varDiff) \/ covAstier = << >>

\* if (muDiff <= minMeanSignalDict[ampName]) or (muDiff >= maxMeanSignalDict[ampName])
OutsideWindow(muDiff, minMeanSignal, maxMeanSignal) ==
    FloatLE(muDiff, minMeanSignal) \/ FloatGE(muDiff, maxMeanSignal)

\* the loop body with expIdMask decided by the flux window alone
AmpSampleWindowOnly(res, minMeanSignal, maxMeanSignal) ==
    LET varDiff   == FloatScale(res.varDiff, VarFactor.num, VarFactor.den)
        outside   == OutsideWindow(res.mu, minMeanSignal, maxMeanSignal)
        made      == MakeCovArray(res.cov[1])
        covArray  == IF res.cov # << >> THEN made.covArray ELSE NaNArray
        weights   == IF res.cov # << >> THEN made.covSqrtWeights ELSE NaNArray
    IN  [rawMean        |-> res.mu,
         rawVar         |-> varDiff,
         expIdMask      |-> ~outside,
         covArray       |-> ScaleCovArray(covArray, VarFactor),
         covSqrtWeights |-> weights,
         measured       |-> res]

\* the body of the loop over the amplifiers for one result of
\* measureMeanVarCov: the arguments of partialPtcDataset.setAmpValues.
\* covArray is assigned by the NaN branch or from a covariance list; a None
\* list always takes the NaN branch.
AmpSample(res, minMeanSignal, maxMeanSignal) ==
    LET varDiff   == FloatScale(res.varDiff, VarFactor.num, VarFactor.den)
        nanBranch == NanBranch(res.mu, varDiff, res.cov)
        outside   == OutsideWindow(res.mu, minMeanSignal, maxMeanSignal)
        made      == MakeCovArray(res.cov[1])
        covArray  == IF res.cov # << >> THEN made.covArray ELSE NaNArray
        weights   == IF res.cov # << >> THEN made.covSqrtWeights ELSE NaNArray
    IN  [rawMean        |-> res.mu,
         rawVar         |-> varDiff,
         expIdMask      |-> ~nanBranch /\ ~outside,
         covArray       |-> ScaleCovArray(covArray, VarFactor),
         covSqrtWeights |-> weights,
         measured       |-> res]

\* the entry of the amplifier taken before the one of 'ALL_AMPS'
ResolveSignalAmpFirst(dict, ampName, default) ==
    IF ampName \in DOMAIN dict THEN dict[ampName]
    ELSE IF "ALL_AMPS" \in DOMAIN dict THEN dict["ALL_AMPS"]
    ELSE default

\* the resolution of the flux window of an amplifier from a config dictionary
ResolveSignal(dict, ampName, default) ==
    IF "ALL_AMPS" \in DOMAIN dict THEN dict["ALL_AMPS"]
    ELSE IF ampName \in DOMAIN dict THEN dict[ampName]
    ELSE default

\* PhotonTransferCurveDataset(ampNames, ptcFitType, ...): no amplifier set yet
NewDataset(ptcFitType) ==
    [ptcFitType       |-> ptcFitType,
     amps             |-> [a \in AmpNames |-> << >>],
     inputExpIdPairs  |-> [a \in AmpNames |-> << >>]]

\* the last two exposures of the bucket instead of the first two
SelectPairLast(exposures) ==
    <<exposures[Len(exposures) - 1], exposures[Len(exposures)]>>

\* exp1, exp2 = exposures[0], exposures[1]: the ids (expId1, expId2)
SelectPair(exposures) == <<exposures[1], exposures[2]>>

\* the indices (from 1) of the entries of dims equal to x, in order
WhereEqual(x, dims) == SelectSeq([k \in 1 .. Len(dims) |-> k], LAMBDA k : dims[k] = x)

\* the chain of matches, taking the last index of a match instead of the first
DatasetIndexLast(expId1, dims) ==
    LET m1 == WhereEqual(expId1, dims)
        m2 == IF expId1 % 1000 = 0 THEN WhereEqual(expId1 \div 1000, dims) ELSE << >>
        m3 == WhereEqual(expId1 \div 100, dims)
        m4 == WhereEqual(expId1 \div 10, dims)
    IN  IF Len(m1) # 0 THEN [found |-> TRUE, index |-> m1[Len(m1)]]
        ELSE IF Len(m2) # 0 THEN [found |-> TRUE, index |-> m2[Len(m2)]]
        ELSE IF Len(m3) # 0 THEN [found |-> TRUE, index |-> m3[Len(m3)]]
        ELSE IF Len(m4) # 0 THEN [found |-> TRUE, index |-> m4[Len(m4)]]
        ELSE [found |-> FALSE, index |-> 0]

\* the chain of matches of expId1 against inputDims: [found, index].
\* expId1/1000 is a true division: it equals an integer only if expId1 is a
\* multiple of 1000; the branches that divide the indices of a match repeat
\* the emptiness test of the branch before them and are never taken.
DatasetIndex(expId1, dims) ==
    LET m1 == WhereEqual(expId1, dims)
        m2 == IF expId1 % 1000 = 0 THEN WhereEqual(expId1 \div 1000, dims) ELSE << >>
        m3 == WhereEqual(expId1 \div 100, dims)
        m4 == WhereEqual(expId1 \div 10, dims)
    IN  IF Len(m1) # 0 THEN [found |-> TRUE, index |-> m1[1]]
        ELSE IF Len(m2) # 0 THEN [found |-> TRUE, index |-> m2[1]]
        ELSE IF Len(m3) # 0 THEN [found |-> TRUE, index |-> m3[1]]
        ELSE IF Len(m4) # 0 THEN [found |-> TRUE, index |-> m4[1]]
        ELSE [found |-> FALSE, index |-> 0]

PtcInit ==
    /\ ptcCfg \in PtcConfigs
    /\ \E in \in PtcInputs : inputExp = in.inputExp /\ inputDims = in.inputDims
    /\ minMeanSignalDict = << >>
    /\ maxMeanSignalDict = << >>
    /\ expIdx = 1
    /\ ampNumber = 0
    /\ nAmpsNan = 0
    /\ partialPtcDataset = << >>
    /\ partialPtcDatasetList = << >>
    /\ ptcPc = "begin"
    /\ ptcExc = "none"
    /\ SORIdle /\ PureIdle /\ BfkIdle /\ MvcIdle

\* the flux windows of the amplifiers, and an output list of dummy datasets
PtcBegin ==
    /\ ptcPc = "begin"
    /\ maxMeanSignalDict' =
          [a \in AmpNames |-> ResolveSignal(ptcCfg.maxMeanSignal, a, Fl(1000000 * FRAC))]
    /\ minMeanSignalDict' =
          [a \in AmpNames |-> ResolveSignal(ptcCfg.minMeanSignal, a, Fl(0))]
    /\ partialPtcDatasetList' = [k \in 1 .. Len(inputDims) |-> NewDataset("DUMMY")]
    /\ ptcPc' = "pairs"
    /\ UNCHANGED <<notPtc, ptcCfg, inputExp, inputDims, expIdx, ampNumber, nAmpsNan,
                   partialPtcDataset, ptcExc>>

\* len(exposures) == 1: the exposure is dropped, continue
PtcDropSingle ==
    /\ ptcPc = "pairs"
    /\ expIdx <= Len(inputExp)
    /\ Len(inputExp[expIdx]) = 1
    /\ expIdx' = expIdx + 1
    /\ UNCHANGED <<notPtc, ptcCfg, inputExp, inputDims, minMeanSignalDict,
                   maxMeanSignalDict, ampNumber, nAmpsNan, partialPtcDataset,
                   partialPtcDatasetList, ptcPc, ptcExc>>

\* the first two exposures make the pair: a new dataset, nAmpsNan = 0
PtcStartPair ==
    /\ ptcPc = "pairs"
    /\ expIdx <= Len(inputExp)
    /\ Len(inputExp[expIdx]) # 1
    /\ nAmpsNan' = 0
    /\ ampNumber' = 0
    /\ partialPtcDataset' = <<NewDataset("")>>
    /\ ptcPc' = "amps"
    /\ UNCHANGED <<notPtc, ptcCfg, inputExp, inputDims, minMeanSignalDict,
                   maxMeanSignalDict, expIdx, partialPtcDatasetList, ptcExc>>

\* one amplifier of the pair (the images decide what measureMeanVarCov
\* returns): a NaN mean or variance, or a None covariance list
PtcAmpNaN ==
    /\ ptcPc = "amps"
    /\ ampNumber < Len(Amps)
    /\ \E st \in PairStats :  \* of the pair SelectPair(inputExp[expIdx])
          LET ampName == Amps[ampNumber + 1]
              res     == MeasureMeanVarCov(st, ptcCfg.minNumberGoodPixelsForCovariance)
              sample  == AmpSample(res, minMeanSignalDict[ampName],
                                   maxMeanSignalDict[ampName])
          IN  /\ NanBranch(res.mu, sample.rawVar, res.cov)
              /\ partialPtcDataset' =
                    [partialPtcDataset EXCEPT
                        ![1].amps[ampName] = <<sample>>,
                        ![1].inputExpIdPairs[ampName] =
                            <<SelectPair(inputExp[expIdx])>>]
    /\ nAmpsNan' = nAmpsNan + 1
    /\ ampNumber' = ampNumber + 1
    /\ UNCHANGED <<notPtc, ptcCfg, inputExp, inputDims, minMeanSignalDict,
                   maxMeanSignalDict, expIdx, partialPtcDatasetList, ptcPc, ptcExc>>

\* one amplifier of the pair: a measured mean, variance and covariance list
PtcAmpMeasured ==
    /\ ptcPc = "amps"
    /\ ampNumber < Len(Amps)
    /\ \E st \in PairStats :  \* of the pair SelectPair(inputExp[expIdx])
          LET ampName == Amps[ampNumber + 1]
              res     == MeasureMeanVarCov(st, ptcCfg.minNumberGoodPixelsForCovariance)
              sample  == AmpSample(res, minMeanSignalDict[ampName],
                                   maxMeanSignalDict[ampName])
          IN  /\ ~NanBranch(res.mu, sample.rawVar, res.cov)
              /\ partialPtcDataset' =
                    [partialPtcDataset EXCEPT
                        ![1].amps[ampName] = <<sample>>,
                        ![1].inputExpIdPairs[ampName] =
                            <<SelectPair(inputExp[expIdx])>>]
    /\ ampNumber' = ampNumber + 1
    /\ UNCHANGED <<notPtc, ptcCfg, inputExp, inputDims, minMeanSignalDict,
                   maxMeanSignalDict, expIdx, nAmpsNan, partialPtcDatasetList, ptcPc,
                   ptcExc>>

\* after the amplifiers: the dataset takes its place in the output list
PtcStorePair ==
    /\ ptcPc = "amps"
    /\ ampNumber = Len(Amps)
    /\ LET match == DatasetIndex(SelectPair(inputExp[expIdx])[1], inputDims)
       IN  /\ match.found
           /\ partialPtcDatasetList' =
                 [partialPtcDatasetList EXCEPT ![match.index] = partialPtcDataset[1]]
    /\ expIdx' = expIdx + 1
    /\ ptcPc' = "pairs"
    /\ UNCHANGED <<notPtc, ptcCfg, inputExp, inputDims, minMeanSignalDict,
                   maxMeanSignalDict, ampNumber, nAmpsNan, partialPtcDataset, ptcExc>>

\* raise RuntimeError("Cannot find appropriate datasetIndex!")
PtcStoreRaise ==
    /\ ptcPc = "amps"
    /\ ampNumber = Len(Amps)
    /\ ~DatasetIndex(SelectPair(inputExp[expIdx])[1], inputDims).found
    /\ ptcPc' = "raised"
    /\ ptcExc' = "RuntimeError"
    /\ UNCHANGED <<notPtc, ptcCfg, inputExp, inputDims, minMeanSignalDict,
                   maxMeanSignalDict, expIdx, ampNumber, nAmpsNan, partialPtcDataset,
                   partialPtcDatasetList>>

\* return pipeBase.Struct(outputCovariances=partialPtcDatasetList)
PtcReturn ==
    /\ ptcPc = "pairs"
    /\ expIdx > Len(inputExp)
    /\ ptcPc' = "done"
    /\ UNCHANGED <<notPtc, ptcCfg, inputExp, inputDims, minMeanSignalDict,
                   maxMeanSignalDict, expIdx, ampNumber, nAmpsNan, partialPtcDataset,
                   partialPtcDatasetList, ptcExc>>

PtcNext ==
    \/ PtcBegin
    \/ PtcDropSingle
    \/ PtcStartPair
    \/ PtcAmpNaN
    \/ PtcAmpMeasured
    \/ PtcStorePair
    \/ PtcStoreRaise
    \/ PtcReturn

(***************************************************************************)
(* PhotonTransferCurveExtractTask.measureMeanVarCov on a small image       *)
(***************************************************************************)
\* bounds of the image side and of the maximum lag
MaxDim == 3
MaxLag == 1

\* config.maskNameList (the default)
MaskNameList == {"SUSPECT", "BAD", "NO_DATA", "SAT"}

\* the pixels of the difference image: its value and the mask planes set
MvcPixels ==
    {[value |-> -2 * FRAC, mask |-> {}],
     [value |-> 2 * FRAC,  mask |-> {}],
     [value |-> 4 * FRAC,  mask |-> {}],
     [value |-> 2 * FRAC,  mask |-> {"BAD"}],
     [value |-> 2 * FRAC,  mask |-> {"CR"}],
     [value |-> 2 * FRAC,  mask |-> {"BAD", "CR"}]}

\* the clipped means of the two images
MvcMeans ==
    {[mu1 |-> Fl(FRAC), mu2 |-> Fl(3 * FRAC)],
     [mu1 |-> NaN,      mu2 |-> Fl(3 * FRAC)],
     [mu1 |-> Fl(FRAC), mu2 |-> NaN]}

\* the pixels the statistics use: those with no plane of maskNameList set
MvcStatPixels(image) == {p \in DOMAIN image : image[p].mask \cap MaskNameList = {}}

\* VARIANCECLIP and MEANCLIP of the difference image: NaN when no pixel is left
\* to the statistics, else a mean within the range of the values they use
MvcStats(image) ==
    IF MvcStatPixels(image) = {}
    THEN {[meanClip |-> NaN, varClip |-> NaN]}
    ELSE {st \in [meanClip : {Fl(0), Fl(2 * FRAC)}, varClip : {Fl(FRAC), Fl(4 * FRAC)}] :
            /\ \E p \in MvcStatPixels(image) : image[p].value <= st.meanClip.v
            /\ \E p \in MvcStatPixels(image) : image[p].value >= st.meanClip.v}

\* np.sqrt of a float
Sqrt(x) ==
    IF IsNan(x) \/ x.v < 0 THEN NaN
    ELSE Fl(CHOOSE r \in 0 .. x.v + FRAC : r * r <= x.v * FRAC /\ (r + 1) * (r + 1) > x.v * FRAC)

\* cut = meanClip + self.config.nSigmaClipPtc*np.sqrt(varClip)
Cut(meanClip, nSigmaClipPtc, varClip) ==
    IF IsNan(meanClip) \/ IsNan(Sqrt(varClip)) THEN NaN
    ELSE Fl(meanClip.v + nSigmaClipPtc * Sqrt(varClip).v)

\* unmasked = np.where(np.fabs(diffIm.image.array) <= cut, 1, 0)
\* wDiff = np.where(diffIm.getMask().getArray() == 0, 1, 0);  w = unmasked*wDiff
PixelWeight(pixel, cut) ==
    LET unmasked == IF FloatLE(Fl(Abs(pixel.value)), cut) THEN 1 ELSE 0
        wDiff    == IF pixel.mask = {} THEN 1 ELSE 0
    IN  unmasked * wDiff

\* int(log(s)/log(2.)) for an integer s >= 1
RECURSIVE FloorLog2(_)
FloorLog2(s) == IF s < 2 THEN 0 ELSE 1 + FloorLog2(s \div 2)

\* the transform size of an axis without the increment of the exponent
FftSizeNoIncrement(d, maxRangeCov) == 2 ^ FloorLog2(d + maxRangeCov)

\* s = shapeDiff + maxRangeCov; tempSize = int(log(s)/log(2.));
\* fftSize = 2**(tempSize+1), for one axis of length d
FftSize(d, maxRangeCov) == 2 ^ (FloorLog2(d + maxRangeCov) + 1)

\* what the function has measured when it returns: the means, the clipped
\* variance, the number of weight-1 pixels (np.sum(w)) and the covariances
MvcMeasured(s) ==
    [mu1     |-> s.mu1,
     mu2     |-> s.mu2,
     varClip |-> s.varClip,
     nGood   |-> SumOver(s.w, DOMAIN s.w),
     cov     |-> CovRowsOf(s.maxRangeCov)]

MvcInit ==
    /\ \E d1 \in 1 .. MaxDim, d2 \in 1 .. MaxDim, k1 \in MvcPixels, k2 \in MvcPixels,
          means \in MvcMeans, nSigmaClipPtc \in {1, 2},
          minNumberGoodPixels \in 0 .. 2, maxRangeCov \in 0 .. MaxLag,
          covAstierRealSpace \in BOOLEAN :
          mvc = [pc       |-> "start",
                 mu1      |-> means.mu1,
                 mu2      |-> means.mu2,
                 shape    |-> <<d1, d2>>,
                 image    |-> [p \in (0 .. d1 - 1) \X (0 .. d2 - 1) |->
                                  IF p = <<0, 0>> THEN k1 ELSE k2],
                 nSigmaClipPtc |-> nSigmaClipPtc,
                 minNumberGoodPixelsForCovariance |-> minNumberGoodPixels,
                 maxRangeCov |-> maxRangeCov,
                 covAstierRealSpace |-> covAstierRealSpace,
                 meanClip |-> NaN,
                 varClip  |-> NaN,
                 w        |-> [p \in (0 .. d1 - 1) \X (0 .. d2 - 1) |-> 0],
                 weighted |-> FALSE,
                 fftShape |-> << >>,
                 result   |-> << >>]
    /\ SORIdle /\ PureIdle /\ BfkIdle /\ PtcIdle

\* if np.isnan(mu1) or np.isnan(mu2): return np.nan, np.nan, None
MvcNanMean ==
    /\ mvc.pc = "start"
    /\ IsNan(mvc.mu1) \/ IsNan(mvc.mu2)
    /\ mvc' = [mvc EXCEPT !.result = <<MeasureMeanVarCov(
                                          MvcMeasured(mvc),
                                          mvc.minNumberGoodPixelsForCovariance)>>,
                          !.pc = "done"]
    /\ UNCHANGED notMvc

\* the statistics of the difference image and the weight of every pixel
MvcWeigh ==
    /\ mvc.pc = "start"
    /\ ~(IsNan(mvc.mu1) \/ IsNan(mvc.mu2))
    /\ \E st \in MvcStats(mvc.image) :
          LET cut == Cut(st.meanClip, mvc.nSigmaClipPtc, st.varClip)
          IN  mvc' = [mvc EXCEPT !.meanClip = st.meanClip,
                                 !.varClip = st.varClip,
                                 !.w = [p \in DOMAIN mvc.image |->
                                           PixelWeight(mvc.image[p], cut)],
                                 !.weighted = TRUE,
                                 !.pc = "weighted"]
    /\ UNCHANGED notMvc

\* if np.sum(w) < minNumberGoodPixelsForCovariance: return np.nan, np.nan, None
MvcTooFew ==
    /\ mvc.pc = "weighted"
    /\ LET res == MeasureMeanVarCov(MvcMeasured(mvc),
                                    mvc.minNumberGoodPixelsForCovariance)
       IN  /\ res.cov = << >>
           /\ mvc' = [mvc EXCEPT !.result = <<res>>, !.pc = "done"]
    /\ UNCHANGED notMvc

\* the covariances, in real space or with transforms of shape fftShape
MvcCovariances ==
    /\ mvc.pc = "weighted"
    /\ LET res == MeasureMeanVarCov(MvcMeasured(mvc),
                                    mvc.minNumberGoodPixelsForCovariance)
       IN  /\ res.cov # << >>
           /\ mvc' = [mvc EXCEPT
                        !.result = <<res>>,
                        !.fftShape =
                            IF mvc.covAstierRealSpace THEN << >>
                            ELSE <<FftSize(mvc.shape[1], mvc.maxRangeCov),
                                   FftSize(mvc.shape[2], mvc.maxRangeCov)>>,
                        !.pc = "done"]
    /\ UNCHANGED notMvc

MvcNext == MvcNanMean \/ MvcWeigh \/ MvcTooFew \/ MvcCovariances

SORInit ==
    /\ \E source \in SORSources, maxIter \in 1 .. MaxIterBound, eLevel \in ELevels :
          sor = SORBegin(source, maxIter, eLevel)
    /\ PureIdle /\ BfkIdle /\ PtcIdle /\ MvcIdle

\* a pass of the loop that does not take the break
SORHalfStepContinue ==
    /\ sor.pc = "loop"
    /\ LoopCondition(sor)
    /\ sor' = SORPass(sor)
    /\ sor'.pc = "loop"
    /\ UNCHANGED notSor

\* a pass of the loop that ends in the break
SORHalfStepBreak ==
    /\ sor.pc = "loop"
    /\ LoopCondition(sor)
    /\ sor' = SORPass(sor)
    /\ sor'.pc = "report"
    /\ UNCHANGED notSor

SORLoopExhausted ==
    /\ sor.pc = "loop"
    /\ ~LoopCondition(sor)
    /\ sor' = SORExhaust(sor)
    /\ UNCHANGED notSor

SORReturn ==
    /\ sor.pc = "report"
    /\ sor' = SORReport(sor)
    /\ UNCHANGED notSor

SORNext == SORHalfStepContinue \/ SORHalfStepBreak \/ SORLoopExhausted \/ SORReturn

(***************************************************************************)
(* Specifications                                                          *)
(***************************************************************************)
SpecSOR == SORInit /\ [][SORNext]_vars

SpecPure == PureInit /\ [][PureNext]_vars

SpecBfk == BfkInit /\ [][BfkNext]_vars

SpecPtc == PtcInit /\ [][PtcNext]_vars

SpecMvc == MvcInit /\ [][MvcNext]_vars

(***************************************************************************)
(* Properties of _tileArray and averageCorrelations (SpecPure)             *)
(***************************************************************************)
\* C1: for every square quarter-matrix Q of side n >= 1, _tileArray(Q) is a
\* (2n-1)x(2n-1) array T with T[n-1+i, n-1+j] = Q[|i|, |j|] for all
\* -(n-1) <= i, j <= n-1; T is unchanged by reversing its rows and by
\* reversing its columns, and its centre cell equals Q[0, 0].
C1_TileSymmetry ==
    \A k \in 1 .. Len(tiled) :
        LET Q == quarters[k]
            T == tiled[k]
            n == Side(Q)
        IN  /\ DOMAIN T = Idx(2 * n - 1)
            /\ \A i \in -(n - 1) .. (n - 1), j \in -(n - 1) .. (n - 1) :
                  T[<<n - 1 + i, n - 1 + j>>] = Q[<<Abs(i), Abs(j)>>]
            /\ \A p \in DOMAIN T :
                  /\ T[p] = T[<<2 * n - 2 - p[1], p[2]>>]
                  /\ T[p] = T[<<p[1], 2 * n - 2 - p[2]>>]
            /\ T[<<n - 1, n - 1>>] = Q[<<0, 0>>]

\* a tiled quarter-matrix of side 3 whose nine entries are all different
C1_Witness ==
    \E k \in 1 .. Len(tiled) :
        /\ Side(quarters[k]) = 3
        /\ \A p \in DOMAIN quarters[k], r \in DOMAIN quarters[k] :
              p # r => quarters[k][p] # quarters[k][r]
        /\ Side(tiled[k]) = 5

C4_AsStated ==
    /\ bfkPc # "raised"
    /\ \A a \in DOMAIN ampAccepted :
          ampAccepted[a] = 0 => ampKernels[a] = <<Zeros(PaddedSide)>>

\* C6 as stated: with level DETECTOR, no sample of an amplifier named in
\* ignoreAmpsForAveraging is in the list pooled for the detector kernel.
C6_AsStated ==
    bfkPc \in {"amps", "samples", "done"} /\ bfkCfg.level = "DETECTOR" =>
        \A k \in 1 .. Len(detectorCorrAmps) :
            detectorCorrAmps[k] \notin bfkCfg.ignoreAmpsForAveraging

(***************************************************************************)
(* Properties of successiveOverRelax (SpecSOR)                             *)
(***************************************************************************)
\* progress of a call: the half-steps executed, then the report, then the return
SORRank(s) ==
    s.halfSteps + (IF s.pc = "loop" THEN 0 ELSE IF s.pc = "report" THEN 1 ELSE 2)

\* some step of the call can be taken: the next pass computes a defined state,
\* or the loop is left, or the report is made
SORCanStep ==
    \/ sor.pc = "loop" /\ LoopCondition(sor) /\ SORPass(sor).pc \in {"loop", "report"}
    \/ sor.pc = "loop" /\ ~LoopCondition(sor)
    \/ sor.pc = "report" /\ SORReport(sor).pc = "done"

\* C7: for every square source and every positive maxIter, successiveOverRelax
\* terminates after at most 2*maxIter half-steps and returns the interior of
\* the solution grid (the shape of the source), whether or not the
\* convergence test ever succeeded: until it has returned it can always take
\* a step, every step makes progress, the half-steps never exceed 2*maxIter,
\* and no step raises.
C7_TerminatesWithinBudget ==
    /\ [](/\ sor.halfSteps <= 2 * sor.maxIter
          /\ sor.pc \in {"loop", "report", "done"}
          /\ sor.pc # "done" => SORCanStep
          /\ sor.pc = "done" =>
                /\ sor.output = Interior(sor.func)
                /\ DOMAIN sor.output = DOMAIN sor.source)
    /\ [][SORRank(sor') > SORRank(sor)]_vars

\* a return after the whole budget was spent without convergence
C7_Witness ==
    /\ sor.pc = "done"
    /\ ~sor.broke
    /\ sor.halfSteps = 2 * sor.maxIter
    /\ sor.inError > 0

\* C8 as stated: a failure is reported exactly when the budget was spent
\* without the test succeeding, a success whenever the test succeeded, and
\* the count reported is the number of completed half-steps divided by two.
C8_AsStated ==
    sor.pc = "done" =>
        /\ (sor.log = "failure") <=> (~sor.broke /\ sor.halfSteps = 2 * sor.maxIter)
        /\ sor.broke => sor.log = "success"
        /\ sor.logIters = sor.halfSteps \div 2

\* C9 as stated: the solver stops on convergence only after a full pair of
\* half-steps, that is after an even number of half-steps.
C9_AsStated == sor.broke => sor.halfSteps % 2 = 0

\* C9 amended: the convergence test is evaluated after every half-step, red
\* or black: the loop goes on only if the test failed on the half-step just
\* executed, and stops as soon as it succeeds, after an odd or an even
\* number of half-steps.
C9_TestEveryHalfStep ==
    /\ (sor.pc = "loop" /\ sor.halfSteps > 0) =>
            ~ConvergenceTest(sor.outError, sor.inError, sor.eLevel)
    /\ sor.broke => ConvergenceTest(sor.outError, sor.inError, sor.eLevel)

\* a stop on convergence after an odd number of half-steps
C9_Witness ==
    /\ sor.pc = "done"
    /\ sor.broke
    /\ sor.halfSteps % 2 = 1


(***************************************************************************)
(* Properties of PhotonTransferCurveExtractTask.run (SpecPtc)              *)
(***************************************************************************)
\* the samples set so far in a dataset
Recorded(dataset) ==
    {dataset.amps[a][1] : a \in {x \in DOMAIN dataset.amps : dataset.amps[x] # << >>}}

\* the samples of the dataset of the current pair and of the output list
AllRecorded ==
    UNION ({Recorded(partialPtcDataset[k]) : k \in 1 .. Len(partialPtcDataset)}
           \cup {Recorded(partialPtcDatasetList[k]) :
                    k \in 1 .. Len(partialPtcDatasetList)})

\* the amplifiers set in a dataset
AmpsSet(dataset) == {a \in DOMAIN dataset.amps : dataset.amps[a] # << >>}

\* C5 as stated: the flux window is inclusive at both ends: a sample that is
\* otherwise valid has expIdMask False only if its mean is strictly below the
\* amplifier's minimum or strictly above its maximum.
C5_AsStated ==
    ptcPc \in {"amps", "pairs", "done", "raised"} =>
        \A k \in 1 .. Len(partialPtcDataset) :
            \A a \in AmpsSet(partialPtcDataset[k]) :
                LET sample == partialPtcDataset[k].amps[a][1]
                IN  ~NanBranch(sample.rawMean, sample.rawVar, sample.measured.cov) =>
                        (sample.expIdMask <=>
                            /\ sample.rawMean.v >= minMeanSignalDict[a].v
                            /\ sample.rawMean.v <= maxMeanSignalDict[a].v)

AllDatasets ==
    {partialPtcDataset[k] : k \in 1 .. Len(partialPtcDataset)}
        \cup {partialPtcDatasetList[k] : k \in 1 .. Len(partialPtcDatasetList)}

\* every amplifier of the dataset has exactly one sample, of the pair given
DatasetOfPair(dataset, pair) ==
    /\ dataset.ptcFitType = ""
    /\ \A a \in AmpNames :
          /\ Len(dataset.amps[a]) = 1
          /\ dataset.inputExpIdPairs[a] = <<pair>>

\* C11: a bucket with exactly one exposure produces no covariance sample; a
\* bucket with two or more exposures produces exactly one sample per
\* amplifier, of its first two exposures; an exposure at position three or
\* later is in no sample.
C11_FirstTwoExposures ==
    /\ \A dataset \in AllDatasets : \A a \in AmpsSet(dataset) :
          \E b \in 1 .. Len(inputExp) :
              /\ Len(inputExp[b]) >= 2
              /\ dataset.inputExpIdPairs[a] = << <<inputExp[b][1], inputExp[b][2]>> >>
    /\ ptcPc \in {"pairs", "done"} =>
          \A b \in 1 .. Len(inputExp) :
              b < expIdx =>
                  IF Len(inputExp[b]) = 1
                  THEN \A dataset \in AllDatasets : \A a \in AmpsSet(dataset) :
                          \A k \in 1 .. 2 :
                              dataset.inputExpIdPairs[a][1][k] # inputExp[b][1]
                  ELSE /\ \E k \in 1 .. Len(partialPtcDatasetList) :
                             DatasetOfPair(partialPtcDatasetList[k],
                                           <<inputExp[b][1], inputExp[b][2]>>)
                       /\ \A dataset \in AllDatasets : \A a \in AmpsSet(dataset) :
                             \A k \in 1 .. 2, e \in 3 .. Len(inputExp[b]) :
                                 dataset.inputExpIdPairs[a][1][k] # inputExp[b][e]

\* a finished run in which a bucket of three exposures gave its sample and a
\* bucket of one exposure was dropped
C11_Witness ==
    /\ ptcPc = "done"
    /\ \E b \in 1 .. Len(inputExp) : Len(inputExp[b]) = 1
    /\ \E b \in 1 .. Len(inputExp) :
          /\ Len(inputExp[b]) = 3
          /\ \E k \in 1 .. Len(partialPtcDatasetList) :
                DatasetOfPair(partialPtcDatasetList[k],
                              <<inputExp[b][1], inputExp[b][2]>>)

\* C12: after the sigma-clip correction the entry of lag (0, 0) is the only
\* one scaled by varFactor once; every entry of another lag, the lags (0, j)
\* with j > 0 included, is scaled by varFactor squared.
C12_AsStated ==
    \A dataset \in AllDatasets : \A a \in AmpsSet(dataset) :
        LET sample == dataset.amps[a][1]
        IN  sample.measured.cov # << >> =>
                \A p \in DOMAIN sample.covArray :
                    sample.covArray[p] =
                        IF p = <<0, 0>>
                        THEN FloatScale(Fl(sample.measured.cov[1][p].cov),
                                        VarFactor.num, VarFactor.den)
                        ELSE FloatScale(Fl(sample.measured.cov[1][p].cov),
                                        VarFactor.num * VarFactor.num,
                                        VarFactor.den * VarFactor.den)

\* the ways an identifier of inputDims matches expId1, in the order tried:
\* equality, expId1 = 1000 * d, d = expId1 // 100, d = expId1 // 10
MatchAt(level, expId1, d) ==
    CASE level = 1 -> d = expId1
      [] level = 2 -> 1000 * d = expId1
      [] level = 3 -> d = expId1 \div 100
      [] level = 4 -> d = expId1 \div 10

\* k is the first index of dims that matches expId1 in the first way that
\* matches any index
IsFirstMatch(k, expId1, dims) ==
    \E level \in 1 .. 4 :
        /\ MatchAt(level, expId1, dims[k])
        /\ \A j \in 1 .. k - 1 : ~MatchAt(level, expId1, dims[j])
        /\ \A l \in 1 .. level - 1, j \in 1 .. Len(dims) : ~MatchAt(l, expId1, dims[j])

NoMatch(expId1, dims) ==
    \A level \in 1 .. 4, j \in 1 .. Len(dims) : ~MatchAt(level, expId1, dims[j])

\* the buckets of two or more exposures whose dataset has been stored
StoredBuckets ==
    {b \in 1 .. Len(inputExp) : b < expIdx /\ Len(inputExp[b]) >= 2}

\* C14: the output list has exactly len(inputDims) entries; the dataset of
\* each processed pair replaces the entry at the first index whose identifier
\* matches the first exposure id of the pair, every other entry is the dummy
\* dataset, and a RuntimeError is raised if no index matches.
C14_OutputList ==
    /\ [](ptcPc # "begin" =>
            /\ Len(partialPtcDatasetList) = Len(inputDims)
            /\ \A k \in 1 .. Len(partialPtcDatasetList) :
                  \/ partialPtcDatasetList[k] = NewDataset("DUMMY")
                  \/ \E b \in StoredBuckets :
                        /\ IsFirstMatch(k, inputExp[b][1], inputDims)
                        /\ DatasetOfPair(partialPtcDatasetList[k],
                                         <<inputExp[b][1], inputExp[b][2]>>)
            /\ ptcPc = "raised" =>
                  /\ ptcExc = "RuntimeError"
                  /\ NoMatch(inputExp[expIdx][1], inputDims))
    /\ [][ptcPc = "amps" /\ ampNumber = Len(Amps) =>
            IF NoMatch(inputExp[expIdx][1], inputDims)
            THEN ptcPc' = "raised" /\ partialPtcDatasetList' = partialPtcDatasetList
            ELSE /\ ptcPc' = "pairs"
                 /\ \E k \in 1 .. Len(inputDims) :
                       /\ IsFirstMatch(k, inputExp[expIdx][1], inputDims)
                       /\ partialPtcDatasetList' =
                             [partialPtcDatasetList EXCEPT ![k] = partialPtcDataset[1]]]_vars

\* a finished run whose list holds a dataset at the first of two indices with
\* the same matching identifier, and the dummy dataset at the second
C14_Witness ==
    /\ ptcPc = "done"
    /\ \E k \in 1 .. Len(inputDims), j \in 1 .. Len(inputDims) :
          /\ k < j
          /\ inputDims[k] = inputDims[j]
          /\ partialPtcDatasetList[k].ptcFitType = ""
          /\ partialPtcDatasetList[j] = NewDataset("DUMMY")

\* inputDims holds the integer prefix expId1 // 1000 of the first exposure id
\* of the bucket, and not the id itself
PrefixInDims(b) ==
    /\ Len(inputExp[b]) >= 2
    /\ inputExp[b][1] >= 1000
    /\ \A k \in 1 .. Len(inputDims) : inputDims[k] # inputExp[b][1]
    /\ \E k \in 1 .. Len(inputDims) : inputDims[k] = inputExp[b][1] \div 1000

\* C15: a pair whose first exposure id carries a detector number in its last
\* three decimal digits is matched to the inputDims entry equal to
\* expId1 // 1000, for any value of those digits, and no error is raised.
C15_AsStated ==
    \A b \in 1 .. Len(inputExp) :
        PrefixInDims(b) =>
            /\ b = expIdx => ptcPc # "raised"
            /\ (b < expIdx /\ ptcPc # "begin") =>
                  \E k \in 1 .. Len(inputDims) :
                      /\ inputDims[k] = inputExp[b][1] \div 1000
                      /\ DatasetOfPair(partialPtcDatasetList[k],
                                       <<inputExp[b][1], inputExp[b][2]>>)

(***************************************************************************)
(* The checkerboard and the boundary of successiveOverRelax (SpecSOR)      *)
(***************************************************************************)
\* the interior points of the working grid of a call
SORInteriorPoints(s) ==
    LET n == Side(s.source)
    IN  {p \in DOMAIN s.func : p[1] \in 1 .. n /\ p[2] \in 1 .. n}

\* the interior points of the colour of half-step nIter
SORColour(s, nIter) ==
    {p \in SORInteriorPoints(s) : (p[1] + p[2]) % 2 = nIter % 2}

\* the sequence has no element twice and its elements are the set
EnumeratesOnce(pts, set) ==
    /\ {pts[k] : k \in 1 .. Len(pts)} = set
    /\ Len(pts) = Cardinality(set)

\* C18: every half-step updates all the interior points of one checkerboard
\* colour and no point of the other: those with i+j even when its index is
\* even, those with i+j odd when it is odd; two consecutive half-steps
\* together update every interior point exactly once.
C18_Checkerboard ==
    /\ [](sor.pc = "loop" =>
            LET m == Side(sor.func)
            IN  /\ EnumeratesOnce(HalfStepPoints(sor.nIter, m), SORColour(sor, sor.nIter))
                /\ EnumeratesOnce(HalfStepPoints(sor.nIter + 1, m),
                                  SORColour(sor, sor.nIter + 1))
                /\ EnumeratesOnce(HalfStepPoints(sor.nIter, m)
                                      \o HalfStepPoints(sor.nIter + 1, m),
                                  SORInteriorPoints(sor)))
    /\ [][sor'.halfSteps = sor.halfSteps + 1 =>
            LET colour == SORColour(sor, sor.nIter)
            IN  \A p \in DOMAIN sor.func :
                IF p \in colour
                THEN /\ sor'.resid[p] =
                            Laplace(sor.func, p[1], p[2])
                                - sor.source[<<p[1] - 1, p[2] - 1>>]
                     /\ sor'.func[p] =
                            sor.func[p] + RoundDiv(sor.omega * sor'.resid[p], 4 * FRAC)
                ELSE /\ sor'.resid[p] = sor.resid[p]
                     /\ sor'.func[p] = sor.func[p]]_vars

\* after an even and an odd half-step on a 3 x 3 source, points of both
\* colours hold a nonzero value
C18_Witness ==
    /\ sor.halfSteps >= 2
    /\ Side(sor.source) = 3
    /\ \E p \in SORColour(sor, 0), q \in SORColour(sor, 1) :
          sor.func[p] # 0 /\ sor.func[q] # 0

\* C19: for an n x n source the working grid is (n+2) x (n+2), its outermost
\* rows and columns are zero in every state of the iteration, and the array
\* returned is the n x n interior of the grid.
C19_ZeroBoundary ==
    LET n == Side(sor.source)
    IN  /\ DOMAIN sor.source = Idx(n)
        /\ DOMAIN sor.func = Idx(n + 2)
        /\ \A p \in Idx(n + 2) :
              (p[1] \in {0, n + 1} \/ p[2] \in {0, n + 1}) => sor.func[p] = 0
        /\ sor.pc = "done" =>
              /\ DOMAIN sor.output = Idx(n)
              /\ \A p \in Idx(n) : sor.output[p] = sor.func[<<p[1] + 1, p[2] + 1>>]

\* a returned 2 x 2 solution with a nonzero value next to the boundary
C19_Witness ==
    /\ sor.pc = "done"
    /\ Side(sor.source) = 2
    /\ sor.halfSteps >= 2
    /\ \A p \in DOMAIN sor.output : sor.output[p] # 0

WithinClip(value, meanClip, nSigmaClipPtc, varClip) ==
    /\ ~IsNan(meanClip)
    /\ ~IsNan(Sqrt(varClip))
    /\ Abs(value - meanClip.v) <= nSigmaClipPtc * Sqrt(varClip).v

\* C13: the weight of a pixel of the difference image is 1 exactly when its
\* value lies within nSigmaClipPtc standard deviations of the clipped mean,
\* on both sides of the mean, and it carries no mask flag of maskNameList; a
\* pixel that carries only flags outside that list keeps weight 1.
C13_AsStated ==
    mvc.weighted =>
        \A p \in DOMAIN mvc.image :
            mvc.w[p] = 1 <=>
                /\ WithinClip(mvc.image[p].value, mvc.meanClip,
                              mvc.nSigmaClipPtc, mvc.varClip)
                /\ mvc.image[p].mask \cap MaskNameList = {}

\* the number of weight-1 pixels, counted pixel by pixel
GoodPixels == Cardinality({p \in DOMAIN mvc.w : mvc.w[p] = 1})

IsPowerOfTwo(n) == \E k \in 0 .. n : 2 ^ k = n

\* C20: in the frequency-domain branch, for every image dimension d >= 1 and
\* maximum lag L >= 0, the transform size of the axis is a power of two
\* strictly greater than d + L and at most 2*(d + L).
C20_FftSize ==
    (mvc.pc = "done" /\ mvc.fftShape # << >>) =>
        /\ Len(mvc.fftShape) = 2
        /\ \A axis \in 1 .. 2 :
              LET s == mvc.shape[axis] + mvc.maxRangeCov
              IN  /\ IsPowerOfTwo(mvc.fftShape[axis])
                  /\ mvc.fftShape[axis] > s
                  /\ mvc.fftShape[axis] <= 2 * s

\* transforms of an image whose one axis plus the lag is a power of two and
\* whose other axis plus the lag is not
C20_Witness ==
    /\ mvc.pc = "done"
    /\ mvc.fftShape # << >>
    /\ IsPowerOfTwo(mvc.shape[1] + mvc.maxRangeCov)
    /\ mvc.shape[1] + mvc.maxRangeCov >= 4
    /\ ~IsPowerOfTwo(mvc.shape[2] + mvc.maxRangeCov)
    /\ mvc.fftShape = <<8, 4>>

(***************************************************************************)
(* The triangle-inequality test of run (SpecBfk)                           *)
(***************************************************************************)
\* C21: the triangle-inequality ratio |sum(tiled)| / sum(|tiled|) of a sample
\* is at most 1, so with xcorrCheckRejectLevel >= 1 the test never rejects:
\* every sample that passes the self-term test, and so is tiled, is appended
\* to scaledCorrList.
C21_TriangleNeverRejects ==
    /\ [](scaled # << >> => Abs(ArraySum(scaled[1])) <= ArrayAbsSum(scaled[1]))
    /\ [][(/\ bfkCfg.xcorrCheckRejectLevel.num >= bfkCfg.xcorrCheckRejectLevel.den
           /\ bfkPc = "samples"
           /\ nSamples' = nSamples + 1
           /\ scaled' # scaled)
          => scaledCorrList' = Append(scaledCorrList, scaled'[1])]_vars

\* with the default level, an accepted sample whose ratio is exactly 1 and an
\* accepted sample whose ratio is below 1
C21_Witness ==
    /\ bfkCfg.xcorrCheckRejectLevel = [num |-> 2, den |-> 1]
    /\ \E k \in 1 .. Len(scaledCorrList) :
          /\ ArrayAbsSum(scaledCorrList[k]) # 0
          /\ Abs(ArraySum(scaledCorrList[k])) = ArrayAbsSum(scaledCorrList[k])
    /\ \E k \in 1 .. Len(scaledCorrList) :
          Abs(ArraySum(scaledCorrList[k])) < ArrayAbsSum(scaledCorrList[k])

(***************************************************************************)
(* successiveOverRelax on an all-zero source (SpecSOR)                     *)
(***************************************************************************)
\* the source of the call is all zero
ZeroSource == \A p \in DOMAIN sor.source : sor.source[p] = 0

\* C22: for an all-zero source the convergence test never succeeds (inError
\* is 0 and the test is a strict inequality), so the call executes the full
\* 2*maxIter half-steps, reports a convergence failure and returns an
\* all-zero array.
C22_ZeroSourceNeverConverges ==
    ZeroSource =>
        /\ sor.inError = 0
        /\ ~sor.broke
        /\ sor.pc = "loop" => sor.nIter = sor.halfSteps
        /\ sor.pc \in {"report", "done"} => sor.halfSteps = 2 * sor.maxIter
        /\ sor.pc = "done" =>
              /\ sor.log = "failure"
              /\ DOMAIN sor.output = DOMAIN sor.source
              /\ \A p \in DOMAIN sor.output : sor.output[p] = 0

\* the return of a call on the 3 x 3 all-zero source with maxIter = 3
C22_Witness ==
    /\ ZeroSource
    /\ Side(sor.source) = 3
    /\ sor.maxIter = 3
    /\ sor.pc = "done"
    /\ sor.halfSteps = 6

(***************************************************************************)
(* The flux window of an amplifier (SpecPtc)                               *)
(***************************************************************************)
\* the bound of an amplifier is resolved from the dictionary alone: the
\* 'ALL_AMPS' entry if there is one, else the amplifier's, else the default
ResolvedFrom(bound, dict, ampName, default) ==
    /\ "ALL_AMPS" \in DOMAIN dict => bound = dict["ALL_AMPS"]
    /\ ("ALL_AMPS" \notin DOMAIN dict /\ ampName \in DOMAIN dict) => bound = dict[ampName]
    /\ ("ALL_AMPS" \notin DOMAIN dict /\ ampName \notin DOMAIN dict) => bound = default

\* C23: the flux window of an amplifier is the 'ALL_AMPS' entry of the
\* configuration dictionary if it has one (even when it also has an entry
\* for the amplifier), else the entry of the amplifier's name, else the
\* default (0.0 for the minimum, 1e6 for the maximum); the minimum and the
\* maximum are resolved independently of each other.
C23_FluxWindow ==
    ptcPc # "begin" =>
        /\ DOMAIN minMeanSignalDict = AmpNames
        /\ DOMAIN maxMeanSignalDict = AmpNames
        /\ \A a \in AmpNames :
              /\ ResolvedFrom(minMeanSignalDict[a], ptcCfg.minMeanSignal, a, Fl(0))
              /\ ResolvedFrom(maxMeanSignalDict[a], ptcCfg.maxMeanSignal, a,
                              Fl(1000000 * FRAC))

\* a minimum taken from 'ALL_AMPS' although the amplifier has an entry of
\* another value, next to a maximum left at its default
C23_Witness ==
    /\ ptcPc = "done"
    /\ \E a \in AmpNames :
          /\ a \in DOMAIN ptcCfg.minMeanSignal
          /\ "ALL_AMPS" \in DOMAIN ptcCfg.minMeanSignal
          /\ ptcCfg.minMeanSignal[a] # ptcCfg.minMeanSignal["ALL_AMPS"]
          /\ minMeanSignalDict[a] = ptcCfg.minMeanSignal["ALL_AMPS"]
          /\ DOMAIN ptcCfg.maxMeanSignal = {}
          /\ maxMeanSignalDict[a] = Fl(1000000 * FRAC)

=============================================================================
